---- MODULE Spec2Model ----
(***************************************************************************)
(* Model of src/python/src/prioritize_tasks.py: one call of                *)
(* prioritize_tasks(tasks), stepped through normalisation, the validation  *)
(* loop, the depth-first cycle detection (one step per call, loop          *)
(* iteration and return of has_cycle) and the final return statement.      *)
(*                                                                         *)
(* A task is a record [id, priority, deadline, estimated_hours,            *)
(* dependencies].  Ids are strings as in the source.  Deadlines are        *)
(* datetime objects, modelled as a day number: parse_deadline returns a    *)
(* datetime argument unchanged (day of January 2024).  estimated_hours is  *)
(* a whole number.  The field "name" is copied and never read, and is left *)
(* out.  The ids of a batch are unique, as the callers of the function     *)
(* guarantee; normalize_tasks is modelled for repeated ids all the same.   *)
(***************************************************************************)
EXTENDS Integers, Sequences, FiniteSets, TLC

VARIABLES tasks, pc, all_task_ids, normalized_tasks, v_idx,
          visited, recursion_stack, top, stack, ret, error, result

vars == <<tasks, pc, all_task_ids, normalized_tasks, v_idx,
          visited, recursion_stack, top, stack, ret, error, result>>

----------------------------------------------------------------------------
(* Program constants *)

PRIORITY_MIN == 1
PRIORITY_MAX == 5

----------------------------------------------------------------------------
(* Bounds of the model *)

\* The longest generated batch, and the longest generated dependency list.
MaxTasks == 3
MaxDeps == 1

----------------------------------------------------------------------------
(* Input batches *)

\* The id of the k-th task of a generated batch.
TaskIds == <<"1", "2", "3", "4", "5">>

\* Ids that name no task of any batch.
MissingIds == {"998", "999"}

Range(s) == {s[k] : k \in 1..Len(s)}

\* The duplicate-free lists over S of length at most m.
DepLists(S, m) ==
    UNION {{s \in [1..l -> S] : \A a, b \in 1..l : a # b => s[a] # s[b]} : l \in 0..m}

MkTask(id, p, d, h, deps) ==
    [id |-> id, priority |-> p, deadline |-> d, estimated_hours |-> h,
     dependencies |-> deps]

\* The batch of n tasks with ids TaskIds[1..n] and the attributes f[k] =
\* <<priority, deadline, estimated_hours, dependencies>>.
MkBatch(n, f) ==
    [k \in 1..n |-> MkTask(TaskIds[k], f[k][1], f[k][2], f[k][3], f[k][4])]

\* Attributes of tasks that all pass validation: with them, every dependency
\* graph on n nodes.
GraphAttrs(n) ==
    {3} \X {20} \X {2} \X DepLists({TaskIds[k] : k \in 1..n}, MaxDeps)

\* Attributes of tasks without dependencies whose ordering keys vary.
KeyAttrs ==
    {PRIORITY_MIN, PRIORITY_MAX} \X {20, 22} \X {2, 4} \X {<<>>}

\* Dependency lists that name missing tasks, alone or after the first task
\* (on the first task itself, a cycle of length one).
FaultyDeps ==
    LET missing == DepLists(MissingIds, Cardinality(MissingIds))
    IN  missing \cup {<<TaskIds[1]>> \o l : l \in missing}

\* Attributes of tasks that may fail each of the checks of validate_task,
\* alone or together.
FaultyAttrs ==
    {PRIORITY_MIN - 1, PRIORITY_MIN, PRIORITY_MAX, PRIORITY_MAX + 1}
        \X {20} \X {-1, 2} \X FaultyDeps

\* tests/test_prioritize_tasks.py: TestBasicFunctionality.test_simple_dependencies
SimpleDependencies ==
    << MkTask("2", 5, 15, 8, <<"1">>), MkTask("1", 3, 20, 2, <<>>) >>

\* tests/test_prioritize_tasks.py: TestComplexDependencies.test_multiple_dependencies
MultipleDependencies ==
    << MkTask("3", 5, 20, 2, <<"1", "2">>), MkTask("1", 2, 20, 2, <<>>),
       MkTask("2", 2, 20, 2, <<>>) >>

\* tests/test_prioritize_tasks.py: TestIntegration.test_complex_real_world_scenario
WorkedExample ==
    << MkTask("1", 5, 25, 2, <<>>), MkTask("2", 4, 20, 4, <<"1">>),
       MkTask("3", 5, 22, 8, <<"1">>), MkTask("4", 3, 18, 2, <<"2", "3">>),
       MkTask("5", 2, 30, 3, <<"4">>) >>

\* tests/test_prioritize_tasks.py:
\* TestDeadlineUrgency.test_deadline_as_tiebreaker_after_priority
DeadlineTiebreaker ==
    << MkTask("1", 5, 20, 2, <<>>), MkTask("2", 5, 15, 2, <<>>),
       MkTask("3", 2, 10, 2, <<>>) >>

TestBatches ==
    {SimpleDependencies, MultipleDependencies, WorkedExample, DeadlineTiebreaker}

\* The batches a call is made with.
IsBatch(ts) ==
    \/ \E n \in 0..MaxTasks : \E f \in [1..n -> GraphAttrs(n)] : ts = MkBatch(n, f)
    \/ \E n \in 1..MaxTasks : \E f \in [1..n -> KeyAttrs] : ts = MkBatch(n, f)
    \/ \E n \in 1..(MaxTasks - 1) : \E f \in [1..n -> FaultyAttrs] : ts = MkBatch(n, f)
    \/ ts \in TestBatches

----------------------------------------------------------------------------
(* Exceptions *)

NoError == [kind |-> "none", task_id |-> "", value |-> 0, dep_id |-> ""]

InvalidPriorityError(task_id, value) ==
    [kind |-> "InvalidPriorityError", task_id |-> task_id, value |-> value, dep_id |-> ""]

InvalidDependencyError(task_id, dep_id) ==
    [kind |-> "InvalidDependencyError", task_id |-> task_id, value |-> 0, dep_id |-> dep_id]

ValueError(task_id) ==
    [kind |-> "ValueError", task_id |-> task_id, value |-> 0, dep_id |-> ""]

CircularDependencyError(task_id) ==
    [kind |-> "CircularDependencyError", task_id |-> task_id, value |-> 0, dep_id |-> ""]

----------------------------------------------------------------------------
(* Pure functions *)

\* parse_deadline on a datetime object: returned as it is.
parse_deadline(deadline) == deadline

\* The first of the loop positions K at which a loop stops, or 0.
FirstIndex(K) ==
    IF K = {} THEN 0 ELSE CHOOSE k \in K : \A j \in K : k <= j

\* validate_task with the dependency check moved before the priority check.
validate_task_deps_first(task, ids) ==
    LET deps == task.dependencies
        m == FirstIndex({k \in 1..Len(deps) : deps[k] \notin ids})
    IN  IF m # 0
        THEN InvalidDependencyError(task.id, task.dependencies[m])
        ELSE IF task.priority < PRIORITY_MIN \/ task.priority > PRIORITY_MAX
        THEN InvalidPriorityError(task.id, task.priority)
        ELSE IF task.estimated_hours < 0
        THEN ValueError(task.id)
        ELSE NoError

\* validate_task whose dependency loop runs to its end and reports the last
\* missing id.
validate_task_last_missing(task, ids) ==
    LET Rev(l) == [k \in 1..Len(l) |-> l[Len(l) + 1 - k]]
        deps == Rev(task.dependencies)
        m == FirstIndex({k \in 1..Len(deps) : deps[k] \notin ids})
    IN  IF task.priority < PRIORITY_MIN \/ task.priority > PRIORITY_MAX
        THEN InvalidPriorityError(task.id, task.priority)
        ELSE IF m # 0
        THEN InvalidDependencyError(task.id, deps[m])
        ELSE IF task.estimated_hours < 0
        THEN ValueError(task.id)
        ELSE NoError

\* validate_task with >= in place of > in the upper priority test.
validate_task_max_excluded(task, ids) ==
    LET deps == task.dependencies
        m == FirstIndex({k \in 1..Len(deps) : deps[k] \notin ids})
    IN  IF task.priority < PRIORITY_MIN \/ task.priority >= PRIORITY_MAX
        THEN InvalidPriorityError(task.id, task.priority)
        ELSE IF m # 0
        THEN InvalidDependencyError(task.id, task.dependencies[m])
        ELSE IF task.estimated_hours < 0
        THEN ValueError(task.id)
        ELSE NoError

\* validate_task: the exception it raises, or NoError.
validate_task(task, ids) ==
    LET deps == task.dependencies
        m == FirstIndex({k \in 1..Len(deps) : deps[k] \notin ids})
    IN  IF task.priority < PRIORITY_MIN \/ task.priority > PRIORITY_MAX
        THEN InvalidPriorityError(task.id, task.priority)
        ELSE IF m # 0
        THEN InvalidDependencyError(task.id, task.dependencies[m])
        ELSE IF task.estimated_hours < 0
        THEN ValueError(task.id)
        ELSE NoError

\* normalize_tasks: the dict as the list of its values in insertion order.  A
\* repeated key keeps its first position and takes the last value.
RECURSIVE normalize_tasks(_)
normalize_tasks(ts) ==
    IF ts = <<>> THEN <<>>
    ELSE LET prev == normalize_tasks(SubSeq(ts, 1, Len(ts) - 1))
             t == ts[Len(ts)]
             task == MkTask(t.id, t.priority, parse_deadline(t.deadline),
                            t.estimated_hours, t.dependencies)
             at == FirstIndex({k \in 1..Len(prev) : prev[k].id = t.id})
         IN  IF at # 0 THEN [prev EXCEPT ![at] = task] ELSE Append(prev, task)

\* tasks.get(task_id) on the dict: the set holding the task, or the empty set.
Get(dict, task_id) == {dict[k] : k \in {j \in 1..Len(dict) : dict[j].id = task_id}}

\* A return that loses the first task.
ReturnValueDropFirst(ts) == Tail(ts)

\* The value prioritize_tasks returns once validation and detection passed.
ReturnValue(ts) == ts

----------------------------------------------------------------------------
(* The call *)

Init ==
    /\ IsBatch(tasks)
    /\ pc = "start"
    /\ all_task_ids = {}
    /\ normalized_tasks = <<>>
    /\ v_idx = 1
    /\ visited = {}
    /\ recursion_stack = {}
    /\ top = 1
    /\ stack = <<>>
    /\ ret = "none"
    /\ error = NoError
    /\ result = <<>>

\* if not tasks: return []
ReturnEmpty ==
    /\ pc = "start"
    /\ tasks = <<>>
    /\ pc' = "returned"
    /\ result' = <<>>
    /\ UNCHANGED <<tasks, all_task_ids, normalized_tasks, v_idx, visited,
                   recursion_stack, top, stack, ret, error>>

\* all_task_ids = {...}; normalized_tasks = normalize_tasks(tasks)
Normalize ==
    /\ pc = "start"
    /\ tasks # <<>>
    /\ all_task_ids' = {tasks[k].id : k \in 1..Len(tasks)}
    /\ normalized_tasks' = normalize_tasks(tasks)
    /\ pc' = "validate"
    /\ UNCHANGED <<tasks, v_idx, visited, recursion_stack, top, stack, ret,
                   error, result>>

\* One iteration of: for task in normalized_tasks.values(): validate_task(...)
ValidateTask ==
    /\ pc = "validate"
    /\ v_idx <= Len(normalized_tasks)
    /\ LET e == validate_task(normalized_tasks[v_idx], all_task_ids)
       IN  IF e # NoError
           THEN /\ error' = e
                /\ pc' = "raised"
                /\ UNCHANGED v_idx
           ELSE /\ v_idx' = v_idx + 1
                /\ UNCHANGED <<error, pc>>
    /\ UNCHANGED <<tasks, all_task_ids, normalized_tasks, visited,
                   recursion_stack, top, stack, ret, result>>

\* The validation loop left one iteration early.
ValidateDoneEarly ==
    /\ pc = "validate"
    /\ v_idx >= Len(normalized_tasks)
    /\ pc' = "detect"
    /\ UNCHANGED <<tasks, all_task_ids, normalized_tasks, v_idx, visited,
                   recursion_stack, top, stack, ret, error, result>>

\* The validation loop is exhausted: detect_circular_dependencies is called.
ValidateDone ==
    /\ pc = "validate"
    /\ v_idx > Len(normalized_tasks)
    /\ pc' = "detect"
    /\ UNCHANGED <<tasks, all_task_ids, normalized_tasks, v_idx, visited,
                   recursion_stack, top, stack, ret, error, result>>

\* has_cycle with its two early returns in the other order.
CallVisitedFirst(task_id) ==
    IF task_id \in visited
    THEN /\ ret' = "false"
         /\ UNCHANGED <<visited, recursion_stack, stack>>
    ELSE IF task_id \in recursion_stack
    THEN /\ ret' = "true"
         /\ UNCHANGED <<visited, recursion_stack, stack>>
    ELSE /\ visited' = visited \cup {task_id}
         /\ recursion_stack' = recursion_stack \cup {task_id}
         /\ stack' = Append(stack, [task_id |-> task_id, i |-> 1])
         /\ ret' = "none"

\* has_cycle without the early return for a node already in visited.
CallRevisits(task_id) ==
    IF task_id \in recursion_stack
    THEN /\ ret' = "true"
         /\ UNCHANGED <<visited, recursion_stack, stack>>
    ELSE /\ visited' = visited \cup {task_id}
         /\ recursion_stack' = recursion_stack \cup {task_id}
         /\ stack' = Append(stack, [task_id |-> task_id, i |-> 1])
         /\ ret' = "none"

\* The entry of has_cycle(task_id): the two early returns, or the marking of
\* the node and a new frame whose loop starts at its first dependency.
Call(task_id) ==
    IF task_id \in recursion_stack
    THEN /\ ret' = "true"
         /\ UNCHANGED <<visited, recursion_stack, stack>>
    ELSE IF task_id \in visited
    THEN /\ ret' = "false"
         /\ UNCHANGED <<visited, recursion_stack, stack>>
    ELSE /\ visited' = visited \cup {task_id}
         /\ recursion_stack' = recursion_stack \cup {task_id}
         /\ stack' = Append(stack, [task_id |-> task_id, i |-> 1])
         /\ ret' = "none"

\* The loop over the keys taken in no fixed order, as over a set of ids.
DetectNextAnyKey ==
    /\ pc = "detect"
    /\ stack = <<>>
    /\ ret = "none"
    /\ top <= Len(normalized_tasks)
    /\ LET unvisited == {k \in 1..Len(normalized_tasks) :
                            normalized_tasks[k].id \notin visited}
       IN  IF unvisited = {}
           THEN /\ top' = Len(normalized_tasks) + 1
                /\ UNCHANGED <<visited, recursion_stack, stack, ret>>
           ELSE \E k \in unvisited :
                    /\ top' = k
                    /\ Call(normalized_tasks[k].id)
    /\ UNCHANGED <<tasks, pc, all_task_ids, normalized_tasks, v_idx, error, result>>

\* One iteration of: for task_id in tasks.keys():
\*     if task_id not in visited and has_cycle(task_id)
DetectNext ==
    /\ pc = "detect"
    /\ stack = <<>>
    /\ ret = "none"
    /\ top <= Len(normalized_tasks)
    /\ LET task_id == normalized_tasks[top].id
       IN  IF task_id \in visited
           THEN /\ top' = top + 1
                /\ UNCHANGED <<visited, recursion_stack, stack, ret>>
           ELSE /\ Call(task_id)
                /\ UNCHANGED top
    /\ UNCHANGED <<tasks, pc, all_task_ids, normalized_tasks, v_idx, error, result>>

\* has_cycle returned to the loop of detect_circular_dependencies.
DetectReturn ==
    /\ pc = "detect"
    /\ stack = <<>>
    /\ ret # "none"
    /\ IF ret = "true"
       THEN /\ error' = CircularDependencyError(normalized_tasks[top].id)
            /\ pc' = "raised"
            /\ UNCHANGED <<top, ret>>
       ELSE /\ top' = top + 1
            /\ ret' = "none"
            /\ UNCHANGED <<error, pc>>
    /\ UNCHANGED <<tasks, all_task_ids, normalized_tasks, v_idx, visited,
                   recursion_stack, stack, result>>

\* The loop of detect_circular_dependencies is exhausted: it returns.
DetectDone ==
    /\ pc = "detect"
    /\ stack = <<>>
    /\ ret = "none"
    /\ top > Len(normalized_tasks)
    /\ pc' = "schedule"
    /\ UNCHANGED <<tasks, all_task_ids, normalized_tasks, v_idx, visited,
                   recursion_stack, top, stack, ret, error, result>>

\* In the innermost has_cycle frame: the next iteration of
\* `for dep_id in task.dependencies: if has_cycle(dep_id)`, or, the loop
\* exhausted (or the task unknown), recursion_stack.remove and return False.
HasCycleLoop ==
    /\ pc = "detect"
    /\ stack # <<>>
    /\ ret = "none"
    /\ LET f == stack[Len(stack)]
           task == Get(normalized_tasks, f.task_id)
       IN  IF \E t \in task : f.i <= Len(t.dependencies)
           THEN \E t \in task : Call(t.dependencies[f.i])
           ELSE /\ recursion_stack' = recursion_stack \ {f.task_id}
                /\ stack' = SubSeq(stack, 1, Len(stack) - 1)
                /\ ret' = "false"
                /\ UNCHANGED visited
    /\ UNCHANGED <<tasks, pc, all_task_ids, normalized_tasks, v_idx, top,
                   error, result>>

\* A recursive has_cycle(dep_id) returned into the innermost frame:
\* True is returned at once, False moves the loop to the next dependency.
HasCycleReturn ==
    /\ pc = "detect"
    /\ stack # <<>>
    /\ ret # "none"
    /\ IF ret = "true"
       THEN /\ stack' = SubSeq(stack, 1, Len(stack) - 1)
            /\ UNCHANGED ret
       ELSE /\ stack' = [stack EXCEPT ![Len(stack)].i = @ + 1]
            /\ ret' = "none"
    /\ UNCHANGED <<tasks, pc, all_task_ids, normalized_tasks, v_idx, visited,
                   recursion_stack, top, error, result>>

\* return tasks
Schedule ==
    /\ pc = "schedule"
    /\ result' = ReturnValue(tasks)
    /\ pc' = "returned"
    /\ UNCHANGED <<tasks, all_task_ids, normalized_tasks, v_idx, visited,
                   recursion_stack, top, stack, ret, error>>

Next ==
    \/ ReturnEmpty
    \/ Normalize
    \/ ValidateTask
    \/ ValidateDone
    \/ DetectNext
    \/ DetectReturn
    \/ DetectDone
    \/ HasCycleLoop
    \/ HasCycleReturn
    \/ Schedule

Spec == Init /\ [][Next]_vars

----------------------------------------------------------------------------
(* What the claims are stated with *)

Finished == pc \in {"returned", "raised"}

Ids(ts) == {ts[k].id : k \in 1..Len(ts)}

\* The checks of the Validator, stated on one task of the batch.
PriorityInRange(t) == t.priority \in 1..5
MissingDeps(ts, t) == Range(t.dependencies) \ Ids(ts)
TaskValid(ts, t) ==
    PriorityInRange(t) /\ MissingDeps(ts, t) = {} /\ t.estimated_hours >= 0
AllValid(ts) == \A k \in 1..Len(ts) : TaskValid(ts, ts[k])

\* The position of the first invalid task of the batch, or 0.
FirstInvalid(ts) ==
    LET K == {k \in 1..Len(ts) : ~TaskValid(ts, ts[k])}
    IN  IF K = {} THEN 0 ELSE CHOOSE k \in K : \A j \in K : k <= j

\* The ids a task depends on, and the ids reachable along one or more edges.
DepsOf(ts, id) == UNION {Range(ts[k].dependencies) : k \in {j \in 1..Len(ts) : ts[j].id = id}}

RECURSIVE Closure(_, _, _)
Closure(ts, S, n) ==
    IF n = 0 THEN S ELSE Closure(ts, S \cup UNION {DepsOf(ts, x) : x \in S}, n - 1)

ReachableFrom(ts, id) == Closure(ts, DepsOf(ts, id), Len(ts))
OnCycle(ts, id) == id \in ReachableFrom(ts, id)
Cyclic(ts) == \E id \in Ids(ts) : OnCycle(ts, id)

\* The ids of a sequence of tasks, in order.
IdSeq(ts) == [k \in 1..Len(ts) |-> ts[k].id]

\* In the output res, the task t has all its dependencies among the tasks
\* placed before position j.
EligibleAt(res, t, j) == Range(t.dependencies) \subseteq {res[m].id : m \in 1..(j - 1)}

\* Positions j < k of the output whose tasks were both eligible when the
\* earlier one was placed.
EligiblePairs(res) ==
    {jk \in (1..Len(res)) \X (1..Len(res)) :
        /\ jk[1] < jk[2]
        /\ EligibleAt(res, res[jk[1]], jk[1])
        /\ EligibleAt(res, res[jk[2]], jk[1])}

----------------------------------------------------------------------------
(* C1 *)

\* C1: in the sequence returned for a valid acyclic batch, every dependency
\* of a task stands strictly before the task.
C1_DependencyRespect ==
    pc = "returned" =>
        \A i \in 1..Len(result) : \A d \in Range(result[i].dependencies) :
            \E j \in 1..(i - 1) : result[j].id = d

----------------------------------------------------------------------------
(* C2 *)

\* C2: a call on a valid acyclic batch of N tasks returns, and what it
\* returns holds exactly the N ids of the batch, each exactly once.
C2_Totality ==
    (Finished /\ AllValid(tasks) /\ ~Cyclic(tasks)) =>
        /\ pc = "returned"
        /\ Len(result) = Len(tasks)
        /\ \A k \in 1..Len(result) : result[k].id \in Ids(tasks)
        /\ \A id \in Ids(tasks) :
               Cardinality({k \in 1..Len(result) : result[k].id = id}) = 1

\* A batch of three tasks with a dependency has been returned.
C2_Witness ==
    /\ pc = "returned"
    /\ Len(tasks) = 3
    /\ \E k \in 1..3 : tasks[k].dependencies # <<>>

----------------------------------------------------------------------------
(* C3 *)

\* C3: of two tasks eligible at the same step, the one of higher priority
\* is placed first; the worked example is returned in the order 1 3 2 4 5.
C3_PriorityDominance ==
    pc = "returned" =>
        /\ \A jk \in EligiblePairs(result) :
               result[jk[2]].priority <= result[jk[1]].priority
        /\ tasks = WorkedExample => IdSeq(result) = <<"1", "3", "2", "4", "5">>

----------------------------------------------------------------------------
(* C4 *)

\* C4: of two tasks eligible at the same step and of equal priority, the
\* one with the earlier deadline is placed first, and with equal deadlines
\* the one with the lower estimated_hours.
C4_TieBreaks ==
    pc = "returned" =>
        \A jk \in EligiblePairs(result) :
            LET a == result[jk[1]]
                b == result[jk[2]]
            IN  a.priority = b.priority =>
                   /\ a.deadline <= b.deadline
                   /\ a.deadline = b.deadline => a.estimated_hours <= b.estimated_hours

----------------------------------------------------------------------------
(* C5 *)

\* C5: a call on a batch whose tasks all pass validation ends with
\* CircularDependencyError if and only if the dependency graph has a cycle
\* (a task that lists itself included).
C5_CycleDetection ==
    (Finished /\ AllValid(tasks)) =>
        (error.kind = "CircularDependencyError" <=> Cyclic(tasks))

\* A cycle through three tasks, none of which lists itself, has been reported.
C5_Witness ==
    /\ pc = "raised"
    /\ error.kind = "CircularDependencyError"
    /\ Len(tasks) = 3
    /\ \A k \in 1..3 : OnCycle(tasks, tasks[k].id)
                        /\ tasks[k].id \notin Range(tasks[k].dependencies)

----------------------------------------------------------------------------
(* C6 *)

\* C6: the task id named by CircularDependencyError lies on a dependency
\* cycle.
C6_NamedTaskOnCycle ==
    error.kind = "CircularDependencyError" => OnCycle(tasks, error.task_id)

----------------------------------------------------------------------------
(* C7 *)

\* The failure the Validator owes for the task t: the checks in the order
\* priority, dependencies, estimated_hours.
ExpectedKind(ts, t) ==
    IF ~PriorityInRange(t) THEN "InvalidPriorityError"
    ELSE IF MissingDeps(ts, t) # {} THEN "InvalidDependencyError"
    ELSE "ValueError"

\* C7: a call on a batch with invalid tasks ends with one failure, that of
\* the first invalid task in input order, of the kind of the first check
\* that task fails in the order priority, dependencies, estimated_hours.
C7_FirstFailure ==
    (Finished /\ ~AllValid(tasks)) =>
        LET t == tasks[FirstInvalid(tasks)]
        IN  /\ pc = "raised"
            /\ error.task_id = t.id
            /\ error.kind = ExpectedKind(tasks, t)

\* A failure has been raised for a batch with two invalid tasks, the first
\* of which has both a bad priority and a missing dependency.
C7_Witness ==
    /\ pc = "raised"
    /\ Cardinality({k \in 1..Len(tasks) : ~TaskValid(tasks, tasks[k])}) >= 2
    /\ LET t == tasks[FirstInvalid(tasks)]
       IN  ~PriorityInRange(t) /\ MissingDeps(tasks, t) # {}

----------------------------------------------------------------------------
(* C8 *)

\* C8: cycle detection works only once every task has been validated, the
\* ordering only once cycle detection has run through every task without
\* finding a cycle; a failed call returns nothing, and a batch with an
\* invalid task and a cycle fails with the validation failure.
C8_PipelineOrder ==
    /\ (pc \in {"detect", "schedule"} \/ visited # {}
            \/ error.kind = "CircularDependencyError") =>
           (v_idx > Len(normalized_tasks) /\ AllValid(tasks))
    /\ (pc = "schedule" \/ (pc = "returned" /\ tasks # <<>>)) =>
           /\ top > Len(normalized_tasks)
           /\ stack = <<>>
           /\ visited = Ids(tasks)
           /\ ~Cyclic(tasks)
    /\ pc = "raised" => (result = <<>> /\ error # NoError)
    /\ pc = "returned" => error = NoError
    /\ (Finished /\ ~AllValid(tasks) /\ Cyclic(tasks)) =>
           error.kind \in {"InvalidPriorityError", "InvalidDependencyError", "ValueError"}

\* A call on a batch with an invalid task and a cycle has failed.
C8_Witness ==
    /\ pc = "raised"
    /\ ~AllValid(tasks)
    /\ Cyclic(tasks)

----------------------------------------------------------------------------
(* C9 *)

\* C9: when the first invalid task of the batch has a priority in range and
\* a dependency on an id that no task of the batch has, the call fails with
\* InvalidDependencyError naming that task and the first such id of its
\* dependency list.
C9_MissingDependency ==
    (Finished /\ ~AllValid(tasks)) =>
        LET t == tasks[FirstInvalid(tasks)]
            deps == t.dependencies
        IN  (PriorityInRange(t) /\ MissingDeps(tasks, t) # {}) =>
               /\ error.kind = "InvalidDependencyError"
               /\ error.task_id = t.id
               /\ \E m \in 1..Len(deps) :
                      /\ error.dep_id = deps[m]
                      /\ deps[m] \notin Ids(tasks)
                      /\ \A j \in 1..(m - 1) : deps[j] \in Ids(tasks)

\* InvalidDependencyError has been raised for a task that lists an id of
\* the batch and then two different missing ids.
C9_Witness ==
    /\ pc = "raised"
    /\ error.kind = "InvalidDependencyError"
    /\ LET t == tasks[FirstInvalid(tasks)]
       IN  /\ Cardinality(MissingDeps(tasks, t)) = 2
           /\ t.dependencies[1] \in Ids(tasks)

----------------------------------------------------------------------------
(* C10 *)

\* C10: validate_task raises InvalidPriorityError exactly for a priority
\* outside 1..5, naming the task and the value: the tasks it has passed
\* have a priority in 1..5, and the task it has failed has a priority
\* outside 1..5 exactly when the failure is InvalidPriorityError.
C10_PriorityRange ==
    /\ \A k \in 1..(v_idx - 1) : normalized_tasks[k].priority \in 1..5
    /\ (pc = "raised" /\ error.kind # "CircularDependencyError") =>
           LET t == normalized_tasks[v_idx]
           IN  /\ error.kind = "InvalidPriorityError" <=> t.priority \notin 1..5
               /\ error.kind = "InvalidPriorityError" =>
                      (error.task_id = t.id /\ error.value = t.priority)

\* A task of priority 5 has been passed and the next one, of priority 6,
\* has been failed.
C10_Witness ==
    /\ pc = "raised"
    /\ error.kind = "InvalidPriorityError"
    /\ error.value = 6
    /\ v_idx = 2
    /\ normalized_tasks[1].priority = 5

----------------------------------------------------------------------------
(* C11 *)

\* A cycle can be reached from the task id along zero or more edges.
ReachesCycle(ts, id) ==
    OnCycle(ts, id) \/ \E x \in ReachableFrom(ts, id) : OnCycle(ts, x)

\* The failure a batch determines: that of its first invalid task; or, all
\* tasks valid, the cycle error naming the first task in input order from
\* which a cycle can be reached; or none.
ExpectedError(ts) ==
    IF ~AllValid(ts)
    THEN LET t == ts[FirstInvalid(ts)]
             deps == t.dependencies
             M == {m \in 1..Len(deps) : deps[m] \notin Ids(ts)}
         IN  IF ~PriorityInRange(t) THEN InvalidPriorityError(t.id, t.priority)
             ELSE IF M # {}
             THEN InvalidDependencyError(t.id, deps[CHOOSE m \in M : \A j \in M : m <= j])
             ELSE ValueError(t.id)
    ELSE IF Cyclic(ts)
    THEN LET K == {k \in 1..Len(ts) : ReachesCycle(ts, ts[k].id)}
         IN  CircularDependencyError(ts[CHOOSE k \in K : \A j \in K : k <= j].id)
    ELSE NoError

\* C11: the outcome of a call is a function of its input batch: every
\* finished call has the failure the batch determines, with the same task
\* id, or, if the batch determines none, has returned the same sequence.
C11_Determinism ==
    Finished =>
        /\ error = ExpectedError(tasks)
        /\ (ExpectedError(tasks) = NoError) => (pc = "returned" /\ result = tasks)
        /\ (ExpectedError(tasks) # NoError) => (pc = "raised" /\ result = <<>>)

\* A cycle error has been raised for a batch in which a cycle can be
\* reached from three start nodes.
C11_Witness ==
    /\ pc = "raised"
    /\ error.kind = "CircularDependencyError"
    /\ Cardinality({k \in 1..Len(tasks) : ReachesCycle(tasks, tasks[k].id)}) = 3

----------------------------------------------------------------------------
(* C12 *)

\* C12: of two tasks eligible at the same step whose priority, deadline and
\* estimated_hours are all equal, the one earlier in the input batch is
\* placed first; the input 3, 1, 2 of test_multiple_dependencies is
\* returned in the order 1 2 3.
C12_Stability ==
    pc = "returned" =>
        /\ \A jk \in EligiblePairs(result) :
               LET a == result[jk[1]]
                   b == result[jk[2]]
                   Pos(id) == CHOOSE k \in 1..Len(tasks) : tasks[k].id = id
               IN  (/\ a.priority = b.priority
                    /\ a.deadline = b.deadline
                    /\ a.estimated_hours = b.estimated_hours) => Pos(a.id) < Pos(b.id)
        /\ tasks = MultipleDependencies => IdSeq(result) = <<"1", "2", "3">>

----------------------------------------------------------------------------
(* C13 *)

\* The ids of the has_cycle frames, outermost first.
FrameIds(st) == [k \in 1..Len(st) |-> st[k].task_id]

\* A has_cycle frame is entered in this step.
Entered == Len(stack') > Len(stack)

\* The state of the traversal: the nodes on the recursion path are visited,
\* they are the nodes of the frames, one frame each, as long as no cycle is
\* being reported; between two top-level traversals, and after the last,
\* the path is empty.
C13_PathInv ==
    /\ recursion_stack \subseteq visited
    /\ \A a, b \in 1..Len(stack) : a # b => stack[a].task_id # stack[b].task_id
    /\ ret # "true" => recursion_stack = Range(FrameIds(stack))
    /\ (stack = <<>> /\ ret # "true") => recursion_stack = {}
    /\ (pc \in {"schedule", "returned"}) => recursion_stack = {}

\* One step of the traversal: a frame is entered only for a node not yet
\* visited, which the step adds to visited, so that a node is added to
\* visited, and its dependency list walked, at most once; a walk goes
\* forward only; and nothing leaves visited.
C13_StepInv ==
    /\ visited \subseteq visited'
    /\ Entered =>
           LET id == stack'[Len(stack')].task_id
           IN  /\ id \notin visited
               /\ visited' = visited \cup {id}
               /\ stack'[Len(stack')].i = 1
    /\ ~Entered => visited' = visited
    /\ \A k \in 1..Len(stack) :
           k <= Len(stack') =>
               /\ stack'[k].task_id = stack[k].task_id
               /\ stack'[k].i >= stack[k].i

\* A step of detect_circular_dependencies.
DetectStep ==
    DetectNext \/ DetectReturn \/ DetectDone \/ HasCycleLoop \/ HasCycleReturn

\* The phases of the call still ahead.
Rank(p) ==
    CASE p = "start" -> 4
      [] p = "validate" -> 3
      [] p = "detect" -> 2
      [] p = "schedule" -> 1
      [] OTHER -> 0

RECURSIVE Sum(_, _)
Sum(f, S) ==
    IF S = {} THEN 0 ELSE LET x == CHOOSE y \in S : TRUE IN f[x] + Sum(f, S \ {x})

\* The steps the traversal can still take with the state (nt, vis, st, r, tp)
\* of normalized_tasks, visited, stack, ret and top: two for each top-level
\* key still to come, less one once the traversal of the current key has
\* begun; for each node not yet visited two for each of its dependencies and
\* one for its return; and the same for the rest of each frame's loop.
StepsLeft(nt, vis, st, r, tp) ==
    LET n == Len(nt)
        dl(k) == Len(nt[k].dependencies)
        Pos(id) == CHOOSE k \in 1..n : nt[k].id = id
        begun == IF st # <<>> \/ r # "none" THEN 1 ELSE 0
        unvisited == {k \in 1..n : nt[k].id \notin vis}
        cost == [k \in 1..n |-> 2 * dl(k) + 1]
        called(j) == IF j < Len(st) \/ r # "none" THEN 1 ELSE 0
        frame == [j \in 1..Len(st) |->
                    2 * (dl(Pos(st[j].task_id)) - st[j].i + 1) + 1 - called(j)]
    IN  2 * (n + 1 - tp) - begun + Sum(cost, unvisited) + Sum(frame, 1..Len(st))

\* What is left of the phase the call is in.
Left ==
    CASE pc = "validate" -> Len(normalized_tasks) + 1 - v_idx
      [] pc = "detect" -> StepsLeft(normalized_tasks, visited, stack, ret, top)
      [] OTHER -> 0

\* One step either ends a phase or leaves less of the phase to do.
C13_Decreases ==
    \/ Rank(pc') < Rank(pc)
    \/ /\ pc' = pc
       /\ pc = "validate"
       /\ 0 <= Len(normalized_tasks') + 1 - v_idx'
       /\ Len(normalized_tasks') + 1 - v_idx' < Left
    \/ /\ pc' = pc
       /\ pc = "detect"
       /\ 0 <= StepsLeft(normalized_tasks', visited', stack', ret', top')
       /\ StepsLeft(normalized_tasks', visited', stack', ret', top') < Left

\* C13: in detect_circular_dependencies a node is added to visited at most
\* once and its dependency list is traversed at most once, a finished node
\* is never explored again, recursion_stack is a subset of visited and is
\* empty whenever no cycle is reported, and the traversal terminates: as
\* long as it runs it has a next step, and every step leaves fewer steps to
\* take.
C13_Traversal ==
    /\ []C13_PathInv
    /\ [][C13_StepInv]_vars
    /\ [](pc = "detect" => ENABLED DetectStep)
    /\ [][C13_Decreases]_vars

\* has_cycle has returned False at once for a dependency that an earlier
\* top-level traversal had finished.
C13_Witness ==
    /\ pc = "detect"
    /\ ret = "false"
    /\ Len(stack) = 1
    /\ stack[1].i = 1
    /\ \E t \in Get(normalized_tasks, stack[1].task_id) :
           LET d == t.dependencies[1]
           IN  /\ d \in visited \ recursion_stack
               /\ \E k \in 1..(top - 1) :
                      d \in ReachableFrom(tasks, normalized_tasks[k].id)
                               \cup {normalized_tasks[k].id}

====
